---- MODULE Spec2Model ----
(***************************************************************************)
(* A model of funnels/funnel.py: the per-user two-cursor matcher and the   *)
(* population counters of query(), and median_from_freq_table().           *)
(*                                                                         *)
(* One action per step of the code: the call of query, one pass of the     *)
(* for-loop head (three outcomes of the try block), one iteration of the   *)
(* while loop (four branches), the end of a user's while loop, the report, *)
(* and the iterations and the return of median_from_freq_table.            *)
(*                                                                         *)
(* A Python dict is a function whose DOMAIN is its key set; a list is a    *)
(* sequence, and the 0-based index c of the code is c + 1 here.            *)
(***************************************************************************)
EXTENDS Integers, Sequences, FiniteSets

VARIABLES
    event_series,   \* user id -> (event name -> list of timestamps)
    calls,          \* the `users` arguments of the invocations of query still to run
    users,          \* the `users` argument of the running invocation
    gap,            \* the `gap` argument
    pc,             \* "idle", "for", "while", "median", "crashed"
    user_idx,       \* how many entries of `users` the for loop has taken
    start_count, end_count, start_es, end_es, sequences, arrival_total, hist,
    lhs, rhs, lhs_cursor, rhs_cursor, found,
    freq_table, total, cume_total, cume_i,
    printed,        \* what the running invocation has printed: <<label, value>>
    error,          \* the exception that ended the last invocation, or "none"
    results,        \* the loop-local totals of each finished invocation
    median_ret,     \* <<v>> once median_from_freq_table has returned v
    pairs,          \* history: the pairs the while loop accepted for this user
    iters           \* history: iterations of this user's while loop

vars == <<event_series, calls, users, gap, pc, user_idx, start_count, end_count,
          start_es, end_es, sequences, arrival_total, hist, lhs, rhs,
          lhs_cursor, rhs_cursor, found, freq_table, total, cume_total, cume_i,
          printed, error, results, median_ret, pairs, iters>>

query_locals == <<start_count, end_count, start_es, end_es, sequences,
                  arrival_total, hist>>
matcher_locals == <<lhs, rhs, lhs_cursor, rhs_cursor, found>>
median_locals == <<freq_table, total, cume_total, cume_i>>

-----------------------------------------------------------------------------
(* Bounds *)

MaxStarts == 3      \* longest start_event series of the matcher inputs
MaxEnds == 2        \* longest end_event series of the matcher inputs
MaxTs == 1          \* largest timestamp of the matcher inputs
MaxGap == 1         \* largest gap
NumUsers == 2       \* users of the aggregation inputs
MaxBuckets == 3     \* longest frequency table given to the median directly
MaxCount == 2       \* largest bucket count given to the median directly

START_EVENT == "start_event"
END_EVENT == "end_event"

-----------------------------------------------------------------------------
(* Helpers *)

RECURSIVE SeqsUpTo(_, _)
SeqsUpTo(S, n) ==
    IF n = 0 THEN {<<>>}
    ELSE LET shorter == SeqsUpTo(S, n - 1)
         IN  shorter \cup {Append(q, x) : q \in {r \in shorter : Len(r) = n - 1}, x \in S}

RECURSIVE SumSeq(_)
SumSeq(q) == IF q = <<>> THEN 0 ELSE q[1] + SumSeq(Tail(q))

IsSorted(q) == \A a, b \in 1..Len(q) : a <= b => q[a] <= q[b]

\* main, lines 62-66: a key exists exactly when the user fired that event at
\* least once, and its list holds the timestamps in file order.
Ingest(S, E) ==
    [ev \in (IF S = <<>> THEN {} ELSE {START_EVENT}) \cup (IF E = <<>> THEN {} ELSE {END_EVENT})
        |-> IF ev = START_EVENT THEN S ELSE E]

\* hist = [0]*(gap+1): a non-positive repeat count gives the empty list.
NewHist(g) == [d \in 1..(g + 1) |-> 0]

-----------------------------------------------------------------------------
(* query, lines 78-85: the call and the initial values of the locals *)

QueryCall ==
    /\ pc = "idle"
    /\ calls # <<>>
    /\ users' = Head(calls)
    /\ calls' = Tail(calls)
    /\ start_count' = 0
    /\ end_count' = 0
    /\ start_es' = 0
    /\ end_es' = 0
    /\ sequences' = 0
    /\ arrival_total' = 0
    /\ hist' = NewHist(gap)
    /\ user_idx' = 0
    /\ printed' = <<>>
    /\ error' = "none"
    /\ median_ret' = <<>>
    /\ pc' = "for"
    /\ UNCHANGED <<event_series, gap, matcher_locals, median_locals, results, pairs, iters>>

-----------------------------------------------------------------------------
(* query, lines 87-100: the head of the for loop and the try block *)

user_id == users[user_idx + 1]

HasKey(d, k) == k \in DOMAIN d

\* line 90, reached whenever the lookup of line 89 did not raise
CountStart(sc) == sc + 1

\* lines 95-96
Scanned(es, series) == es + Len(series)

\* line 100 missing: found keeps the value the previous user left
ResetFound_kept(f) == f

\* line 100
ResetFound(f) == FALSE

\* line 89 raises KeyError: continue
UserNoStart ==
    /\ pc = "for"
    /\ user_idx < Len(users)
    /\ ~HasKey(event_series[user_id], START_EVENT)
    /\ user_idx' = user_idx + 1
    /\ UNCHANGED <<event_series, calls, users, gap, pc, query_locals, matcher_locals,
                   median_locals, printed, error, results, median_ret, pairs, iters>>

\* line 90 placed after line 91: a user without end_event is not counted
UserNoEnd_uncounted ==
    /\ pc = "for"
    /\ user_idx < Len(users)
    /\ HasKey(event_series[user_id], START_EVENT)
    /\ ~HasKey(event_series[user_id], END_EVENT)
    /\ lhs' = event_series[user_id][START_EVENT]
    /\ user_idx' = user_idx + 1
    /\ UNCHANGED <<event_series, calls, users, gap, pc, query_locals, rhs, lhs_cursor,
                   rhs_cursor, found, median_locals, printed, error, results,
                   median_ret, pairs, iters>>

\* line 95 placed right after line 89: the starts of a user without end_event
\* are scanned too
UserNoEnd_scanned ==
    /\ pc = "for"
    /\ user_idx < Len(users)
    /\ HasKey(event_series[user_id], START_EVENT)
    /\ ~HasKey(event_series[user_id], END_EVENT)
    /\ lhs' = event_series[user_id][START_EVENT]
    /\ start_count' = CountStart(start_count)
    /\ start_es' = Scanned(start_es, lhs')
    /\ user_idx' = user_idx + 1
    /\ UNCHANGED <<event_series, calls, users, gap, pc, end_count, end_es,
                   sequences, arrival_total, hist, rhs, lhs_cursor, rhs_cursor, found,
                   median_locals, printed, error, results, median_ret, pairs, iters>>

\* lines 89-90 run, line 91 raises KeyError: continue
UserNoEnd ==
    /\ pc = "for"
    /\ user_idx < Len(users)
    /\ HasKey(event_series[user_id], START_EVENT)
    /\ ~HasKey(event_series[user_id], END_EVENT)
    /\ lhs' = event_series[user_id][START_EVENT]
    /\ start_count' = CountStart(start_count)
    /\ user_idx' = user_idx + 1
    /\ UNCHANGED <<event_series, calls, users, gap, pc, end_count, start_es, end_es,
                   sequences, arrival_total, hist, rhs, lhs_cursor, rhs_cursor, found,
                   median_locals, printed, error, results, median_ret, pairs, iters>>

\* lines 89-100 run: the while loop starts
UserBoth ==
    /\ pc = "for"
    /\ user_idx < Len(users)
    /\ HasKey(event_series[user_id], START_EVENT)
    /\ HasKey(event_series[user_id], END_EVENT)
    /\ lhs' = event_series[user_id][START_EVENT]
    /\ start_count' = CountStart(start_count)
    /\ rhs' = event_series[user_id][END_EVENT]
    /\ start_es' = Scanned(start_es, lhs')
    /\ end_es' = Scanned(end_es, rhs')
    /\ lhs_cursor' = 0
    /\ rhs_cursor' = 0
    /\ found' = ResetFound(found)
    /\ user_idx' = user_idx + 1
    /\ pairs' = <<>>
    /\ iters' = 0
    /\ pc' = "while"
    /\ UNCHANGED <<event_series, calls, users, gap, end_count, sequences, arrival_total,
                   hist, median_locals, printed, error, results, median_ret>>

-----------------------------------------------------------------------------
(* query, lines 102-122: the matcher *)

\* line 102
LoopCond == lhs_cursor < Len(lhs) /\ rhs_cursor < Len(rhs)

lhs_value == lhs[lhs_cursor + 1]
rhs_value == rhs[rhs_cursor + 1]

\* line 107 with the bound off by one: r - l <= gap + 1
WithinGap_loose(l, r, g) == r - l <= g + 1

\* line 107 with a strict comparison: r - l < gap
WithinGap_strict(l, r, g) == r - l < g

\* line 107
WithinGap(l, r, g) == r - l <= g

\* lines 108-109: lhs_peek is None past the end of lhs, and `lhs_peek and ...`
\* is falsy for None and for the timestamp 0 alike.
PeekQualifies(l, c, r, g) ==
    /\ c + 1 < Len(l)
    /\ l[c + 2] # 0
    /\ l[c + 2] <= r
    /\ r - l[c + 2] <= g

\* line 115. The index d is in 0..gap whenever the code reaches the line.
HistIncr(h, d) == [h EXCEPT ![d + 1] = @ + 1]

\* line 116 with the start consumed too: both cursors move
AcceptCursors_both(lc, rc) == <<lc + 1, rc + 1>>

\* line 116: accepting a pair moves the cursors to <<lhs_cursor, rhs_cursor + 1>>
AcceptCursors(lc, rc) == <<lc, rc + 1>>

\* lines 121-122 without the test of found
EndCountAfterUser_always(ec, f) == ec + 1

\* lines 121-122
EndCountAfterUser(ec, f) == IF f THEN ec + 1 ELSE ec

\* lines 119-120
AdvanceEnd ==
    /\ pc = "while"
    /\ LoopCond
    /\ ~(lhs_value <= rhs_value)
    /\ rhs_cursor' = rhs_cursor + 1
    /\ iters' = iters + 1
    /\ UNCHANGED <<event_series, calls, users, gap, pc, user_idx, query_locals, lhs, rhs,
                   lhs_cursor, found, median_locals, printed, error, results,
                   median_ret, pairs>>

\* lines 117-118
SkipStart ==
    /\ pc = "while"
    /\ LoopCond
    /\ lhs_value <= rhs_value
    /\ ~WithinGap(lhs_value, rhs_value, gap)
    /\ lhs_cursor' = lhs_cursor + 1
    /\ iters' = iters + 1
    /\ UNCHANGED <<event_series, calls, users, gap, pc, user_idx, query_locals, lhs, rhs,
                   rhs_cursor, found, median_locals, printed, error, results,
                   median_ret, pairs>>

\* lines 108-110
PeekAdvance ==
    /\ pc = "while"
    /\ LoopCond
    /\ lhs_value <= rhs_value
    /\ WithinGap(lhs_value, rhs_value, gap)
    /\ PeekQualifies(lhs, lhs_cursor, rhs_value, gap)
    /\ lhs_cursor' = lhs_cursor + 1
    /\ iters' = iters + 1
    /\ UNCHANGED <<event_series, calls, users, gap, pc, user_idx, query_locals, lhs, rhs,
                   rhs_cursor, found, median_locals, printed, error, results,
                   median_ret, pairs>>

\* lines 111-116
Accept ==
    /\ pc = "while"
    /\ LoopCond
    /\ lhs_value <= rhs_value
    /\ WithinGap(lhs_value, rhs_value, gap)
    /\ ~PeekQualifies(lhs, lhs_cursor, rhs_value, gap)
    /\ sequences' = sequences + 1
    /\ found' = TRUE
    /\ arrival_total' = arrival_total + (rhs_value - lhs_value)
    /\ hist' = HistIncr(hist, rhs_value - lhs_value)
    /\ lhs_cursor' = AcceptCursors(lhs_cursor, rhs_cursor)[1]
    /\ rhs_cursor' = AcceptCursors(lhs_cursor, rhs_cursor)[2]
    /\ pairs' = Append(pairs, [i |-> lhs_cursor, j |-> rhs_cursor,
                               s |-> lhs_value, e |-> rhs_value])
    /\ iters' = iters + 1
    /\ UNCHANGED <<event_series, calls, users, gap, pc, user_idx, start_count, end_count,
                   start_es, end_es, lhs, rhs, median_locals, printed, error, results,
                   median_ret>>

\* line 102 is false: lines 121-122, and back to the for loop
UserDone ==
    /\ pc = "while"
    /\ ~LoopCond
    /\ end_count' = EndCountAfterUser(end_count, found)
    /\ pc' = "for"
    /\ UNCHANGED <<event_series, calls, users, gap, user_idx, start_count, start_es,
                   end_es, sequences, arrival_total, hist, matcher_locals, median_locals,
                   printed, error, results, median_ret, pairs, iters>>

-----------------------------------------------------------------------------
(* query, lines 124-135: the report; median_from_freq_table, lines 137-144 *)

\* The loop-local totals of query when its for loop has ended.
Totals ==
    [users |-> users, start_count |-> start_count, end_count |-> end_count,
     sequences |-> sequences, arrival_total |-> arrival_total,
     events_scanned |-> start_es + end_es, hist |-> hist]

\* lines 128-130 print unconditionally
PrintedCounters ==
    << <<"events scanned", start_es + end_es>>,
       <<"Unique starts", start_count>>,
       <<"Unique completes", end_count>> >>

\* lines 131-134. A rate is kept as <<dividend, divisor>>; its rendering with
\* two decimals is read by no property here.
PrintedRates ==
    << <<"Complete rate", <<end_count * 100, start_count>> >>,
       <<"Total completes", sequences>>,
       <<"Completes per user", <<sequences, end_count>> >>,
       <<"Average arrival time", <<arrival_total, sequences>> >> >>

\* lines 131, 133, 134 divide by these
ZeroDivisor == start_count = 0 \/ end_count = 0 \/ sequences = 0

\* line 139 with a floor division: midpoint = total // 2
LessThanMidpoint_floor(ct, tot) == ct < tot \div 2

\* line 141, with midpoint = total / 2 a true division: cume_total < total / 2
LessThanMidpoint(ct, tot) == 2 * ct < tot

\* lines 128-134 raise ZeroDivisionError at the first zero divisor
ReportCrash ==
    /\ pc = "for"
    /\ user_idx = Len(users)
    /\ ZeroDivisor
    /\ printed' = PrintedCounters \o
                    (IF start_count = 0 THEN <<>>
                     ELSE SubSeq(PrintedRates, 1, IF end_count = 0 THEN 2 ELSE 3))
    /\ error' = "ZeroDivisionError"
    /\ results' = Append(results, Totals)
    /\ pc' = "idle"
    /\ UNCHANGED <<event_series, calls, users, gap, user_idx, query_locals,
                   matcher_locals, median_locals, median_ret, pairs, iters>>

\* lines 128-134 print, line 135 calls median_from_freq_table(hist): lines 138-140
Report ==
    /\ pc = "for"
    /\ user_idx = Len(users)
    /\ ~ZeroDivisor
    /\ printed' = PrintedCounters \o PrintedRates
    /\ results' = Append(results, Totals)
    /\ freq_table' = hist
    /\ total' = SumSeq(hist)
    /\ cume_total' = 0
    /\ cume_i' = 0
    /\ pc' = "median"
    /\ UNCHANGED <<event_series, calls, users, gap, user_idx, query_locals,
                   matcher_locals, error, median_ret, pairs, iters>>

\* lines 141-143; freq_table[cume_i] past the end raises IndexError
MedianStep ==
    /\ pc = "median"
    /\ LessThanMidpoint(cume_total, total)
    /\ IF cume_i < Len(freq_table)
       THEN /\ cume_total' = cume_total + freq_table[cume_i + 1]
            /\ cume_i' = cume_i + 1
            /\ UNCHANGED <<pc, error>>
       ELSE /\ error' = "IndexError"
            /\ pc' = "idle"
            /\ UNCHANGED <<cume_total, cume_i>>
    /\ UNCHANGED <<event_series, calls, users, gap, user_idx, query_locals,
                   matcher_locals, freq_table, total, printed, results, median_ret,
                   pairs, iters>>

\* line 144, and the print of line 135
MedianReturn ==
    /\ pc = "median"
    /\ ~LessThanMidpoint(cume_total, total)
    /\ median_ret' = <<cume_i>>
    /\ printed' = Append(printed, <<"Approx median arrival time", cume_i>>)
    /\ pc' = "idle"
    /\ UNCHANGED <<event_series, calls, users, gap, user_idx, query_locals,
                   matcher_locals, median_locals, error, results, pairs, iters>>

-----------------------------------------------------------------------------
(* Specifications *)

Next ==
    \/ QueryCall
    \/ UserNoStart
    \/ UserNoEnd
    \/ UserBoth
    \/ AdvanceEnd
    \/ SkipStart
    \/ PeekAdvance
    \/ Accept
    \/ UserDone
    \/ ReportCrash
    \/ Report
    \/ MedianStep
    \/ MedianReturn

NextMedian ==
    \/ MedianStep
    \/ MedianReturn

\* Nothing has run: no invocation has assigned a local yet.
Fresh ==
    /\ users = <<>>
    /\ user_idx = 0
    /\ start_count = 0
    /\ end_count = 0
    /\ start_es = 0
    /\ end_es = 0
    /\ sequences = 0
    /\ arrival_total = 0
    /\ hist = <<>>
    /\ lhs = <<>>
    /\ rhs = <<>>
    /\ lhs_cursor = 0
    /\ rhs_cursor = 0
    /\ found = FALSE
    /\ printed = <<>>
    /\ error = "none"
    /\ results = <<>>
    /\ median_ret = <<>>
    /\ pairs = <<>>
    /\ iters = 0

Timestamps == (0 - 1)..MaxTs
Gaps == (0 - 1)..MaxGap

\* One invocation of query over one user with every series within the bounds,
\* sorted or not, and every gap, the negative gap -1 included.
InitMatcher ==
    /\ \E S \in SeqsUpTo(Timestamps, MaxStarts), E \in SeqsUpTo(Timestamps, MaxEnds) :
          event_series = [u \in {1} |-> Ingest(S, E)]
    /\ gap \in Gaps
    /\ calls = << <<1>> >>
    /\ pc = "idle"
    /\ freq_table = <<>>
    /\ total = 0
    /\ cume_total = 0
    /\ cume_i = 0
    /\ Fresh

SpecMatcher == InitMatcher /\ [][Next]_vars

\* The users of the aggregation runs: with neither series, with one of the two,
\* with both and no pair, one pair of latency 0 or 1, two ends on one start,
\* and two starts for one end.
AggInputs ==
    { <<(<<>>), (<<>>)>>, <<(<<0>>), (<<>>)>>, <<(<<>>), (<<1>>)>>,
      <<(<<1>>), (<<0>>)>>, <<(<<0>>), (<<0>>)>>, <<(<<0>>), (<<1>>)>>,
      <<(<<0>>), (<<0, 1>>)>>, <<(<<0, 1>>), (<<1>>)>> }

UserIds == 1..NumUsers

RECURSIVE SortedList(_)
SortedList(S) ==
    IF S = {} THEN <<>>
    ELSE LET m == CHOOSE x \in S : \A y \in S : x <= y
         IN  <<m>> \o SortedList(S \ {m})

Orders(S) == {q \in [1..Cardinality(S) -> S] : \A a, b \in DOMAIN q : a # b => q[a] # q[b]}

\* Three invocations of query on one index: on each of the two groups of a
\* partition of the users, then on all the users in some order.
Init ==
    /\ \E f \in [UserIds -> AggInputs] :
          event_series = [u \in UserIds |-> Ingest(f[u][1], f[u][2])]
    /\ gap \in 0..MaxGap
    /\ \E G \in SUBSET UserIds, all \in Orders(UserIds) :
          calls = <<SortedList(G), SortedList(UserIds \ G), all>>
    /\ pc = "idle"
    /\ freq_table = <<>>
    /\ total = 0
    /\ cume_total = 0
    /\ cume_i = 0
    /\ Fresh

Spec == Init /\ [][Next]_vars

\* median_from_freq_table called on any frequency table within the bounds
InitMedian ==
    /\ freq_table \in SeqsUpTo(0..MaxCount, MaxBuckets)
    /\ total = SumSeq(freq_table)
    /\ cume_total = 0
    /\ cume_i = 0
    /\ pc = "median"
    /\ event_series = <<>>
    /\ gap = 0
    /\ calls = <<>>
    /\ Fresh

SpecMedian == InitMedian /\ [][NextMedian]_vars

-----------------------------------------------------------------------------
(* Properties *)

\* s is a start that may be paired with the end e
Qualifies(s, e, g) == s <= e /\ e - s <= g

Range(q) == {q[n] : n \in 1..Len(q)}

NonNegative(q) == \A n \in 1..Len(q) : q[n] >= 0

\* C1. Pair validity: every pair (s, e) the while loop accepts, for series
\* sorted or not, has s <= e and e - s <= gap, so the bucket e - s it
\* increments is one of the gap + 1 buckets of hist, which for the first user
\* of an invocation therefore hold exactly the accepted pairs.
C1_PairValidity ==
    pc = "while" =>
        /\ \A n \in 1..Len(pairs) :
              /\ pairs[n].s <= pairs[n].e
              /\ pairs[n].e - pairs[n].s <= gap
              /\ pairs[n].e - pairs[n].s \in 0..gap
              /\ pairs[n].e - pairs[n].s + 1 \in DOMAIN hist
        /\ Len(hist) = (IF gap >= 0 THEN gap + 1 ELSE 0)
        /\ user_idx = 1 =>
              \A d \in 0..gap :
                  hist[d + 1] = Cardinality({n \in 1..Len(pairs) : pairs[n].e - pairs[n].s = d})

C1_Witness ==
    /\ pc = "while"
    /\ ~IsSorted(lhs)
    /\ gap > 0
    /\ \E n \in 1..Len(pairs) : pairs[n].e - pairs[n].s = gap

\* C2. Closest-start tie-break: for non-decreasing series of non-negative
\* timestamps and gap >= 0, every accepted pair (s, e) has s equal to the
\* latest start of the series that qualifies for e.
C2_ClosestStart ==
    (pc = "while" /\ gap >= 0 /\ IsSorted(lhs) /\ IsSorted(rhs)
        /\ NonNegative(lhs) /\ NonNegative(rhs)) =>
        \A n \in 1..Len(pairs) : \A s \in Range(lhs) :
            Qualifies(s, pairs[n].e, gap) => s <= pairs[n].s

\* C8. Negative gap rejection: with gap < 0 query fails with an
\* InvalidParameterError before it matches any user, and produces no report.
C8_NegativeGapRejected ==
    gap < 0 =>
        /\ pc = "idle"
        /\ user_idx = 0
        /\ printed = <<>>
        /\ results = <<>>
        /\ error \in {"none", "InvalidParameterError"}

\* The ends of rhs, by position, that the while loop has decided: those before
\* rhs_cursor, and all of them once the loop has ended.
Decided == {j \in 1..Len(rhs) : j <= rhs_cursor \/ ~LoopCond}

AcceptedAt(j) == {n \in 1..Len(pairs) : pairs[n].j = j - 1}

\* C9. Matching completeness: for non-decreasing series, each position of the
\* end series is accepted at most once, and exactly when some start qualifies
\* for it; so the pairs accepted for the user are as many as the end occurrences
\* that have a qualifying start, and the other ends are discarded.
C9_Completeness ==
    (pc = "while" /\ IsSorted(lhs) /\ IsSorted(rhs)) =>
        /\ \A j \in Decided :
              Cardinality(AcceptedAt(j)) =
                  (IF \E s \in Range(lhs) : Qualifies(s, rhs[j], gap) THEN 1 ELSE 0)
        /\ ~LoopCond =>
              Len(pairs) = Cardinality({j \in 1..Len(rhs) :
                                \E s \in Range(lhs) : Qualifies(s, rhs[j], gap)})

C9_Witness ==
    /\ pc = "while"
    /\ ~LoopCond
    /\ IsSorted(lhs)
    /\ IsSorted(rhs)
    /\ Len(rhs) = 2
    /\ rhs[1] = rhs[2]
    /\ Len(pairs) = 2
    /\ Len(lhs) > 1

\* C10. Matcher termination: for any series, sorted or not, and any gap, each
\* iteration of the while loop moves exactly one cursor forward by one and
\* never moves a cursor back, the cursors stay within 0..|S| and 0..|E|, the
\* loop has run at most |S| + |E| iterations, one more iteration can always
\* run while both cursors are inside their series, and the loop ends, with a
\* cursor exhausted, as soon as one is not.
C10_Termination ==
    /\ [](pc = "while" =>
            /\ lhs_cursor \in 0..Len(lhs)
            /\ rhs_cursor \in 0..Len(rhs)
            /\ iters = lhs_cursor + rhs_cursor
            /\ iters <= Len(lhs) + Len(rhs)
            /\ LoopCond => ENABLED (AdvanceEnd \/ SkipStart \/ PeekAdvance \/ Accept)
            /\ ~LoopCond => ENABLED UserDone)
    /\ [][(pc = "while" /\ pc' = "while") =>
            /\ iters' = iters + 1
            /\ \/ lhs_cursor' = lhs_cursor + 1 /\ rhs_cursor' = rhs_cursor
               \/ lhs_cursor' = lhs_cursor /\ rhs_cursor' = rhs_cursor + 1]_vars
    /\ [][(pc = "while" /\ pc' # "while") =>
            (pc' = "for" /\ (lhs_cursor = Len(lhs) \/ rhs_cursor = Len(rhs)))]_vars

C10_Witness ==
    /\ pc = "while"
    /\ ~LoopCond
    /\ ~IsSorted(lhs)
    /\ ~IsSorted(rhs)
    /\ iters = Len(lhs) + Len(rhs) - 1
    /\ gap < 0

\* C3. Many-to-one reuse: accepting a pair moves only the end cursor and leaves
\* the start cursor where it is, so one start may take several ends; a user
\* with k >= 1 accepted pairs adds k to sequences and exactly 1 to end_count,
\* and a user with no accepted pair, or without one of the two series, adds 0
\* to both.
C3_ManyToOne ==
    /\ [](pc = "while" => (found <=> pairs # <<>>))
    /\ [][Len(pairs') = Len(pairs) + 1 =>
            /\ lhs_cursor' = lhs_cursor
            /\ rhs_cursor' = rhs_cursor + 1
            /\ sequences' = sequences + 1
            /\ end_count' = end_count]_vars
    /\ [][(pc = "while" /\ pc' = "while" /\ pairs' = pairs) =>
            (sequences' = sequences /\ end_count' = end_count)]_vars
    /\ [][(pc = "while" /\ pc' = "for") =>
            /\ sequences' = sequences
            /\ end_count' = end_count + (IF Len(pairs) >= 1 THEN 1 ELSE 0)]_vars
    /\ [][(pc = "for" /\ pc' \in {"for", "while"}) =>
            (sequences' = sequences /\ end_count' = end_count)]_vars

C3_Witness ==
    /\ pc = "for"
    /\ user_idx = 2
    /\ Len(pairs) = 2
    /\ pairs[1].i = pairs[2].i
    /\ end_count = 2
    /\ sequences = 3

\* The result the estimator is said to give for the table ft
CumulativeCount(ft, k) == SumSeq(SubSeq(ft, 1, k + 1))

ExpectedMedian(ft) ==
    IF SumSeq(ft) = 0 THEN 0
    ELSE 1 + CHOOSE k \in 0..(Len(ft) - 1) :
                 /\ 2 * CumulativeCount(ft, k) >= SumSeq(ft)
                 /\ \A m \in 0..(k - 1) : 2 * CumulativeCount(ft, m) < SumSeq(ft)

\* C4. Median estimator result: median_from_freq_table returns 0 when the
\* total T is 0, and otherwise k + 1 for the smallest bucket index k whose
\* cumulative count is not less than T / 2 (k + 1 when all the mass is in
\* bucket k); the scan never reads past the last bucket.
C4_MedianResult ==
    /\ error # "IndexError"
    /\ cume_i <= Len(freq_table)
    /\ (pc = "median" /\ LessThanMidpoint(cume_total, total)) => cume_i < Len(freq_table)
    /\ median_ret # <<>> =>
          /\ median_ret[1] = ExpectedMedian(freq_table)
          /\ \A k \in 0..(Len(freq_table) - 1) :
                (freq_table[k + 1] > 0 /\ \A m \in 0..(Len(freq_table) - 1) :
                                              m # k => freq_table[m + 1] = 0)
                    => median_ret[1] = k + 1

C4_Witness ==
    /\ median_ret = <<3>>
    /\ Len(freq_table) = 3
    /\ freq_table[1] = 0
    /\ freq_table[2] = 0
    /\ freq_table[3] > 0

\* The partial aggregates a and b merged: counts and sums added, histograms
\* added bucket by bucket.
Merge(a, b) ==
    [start_count |-> a.start_count + b.start_count,
     end_count |-> a.end_count + b.end_count,
     sequences |-> a.sequences + b.sequences,
     arrival_total |-> a.arrival_total + b.arrival_total,
     events_scanned |-> a.events_scanned + b.events_scanned,
     hist |-> [d \in 1..(gap + 1) |-> a.hist[d] + b.hist[d]]]

Aggregate(r) ==
    [start_count |-> r.start_count, end_count |-> r.end_count,
     sequences |-> r.sequences, arrival_total |-> r.arrival_total,
     events_scanned |-> r.events_scanned, hist |-> r.hist]

\* C5. Aggregation commutativity: the fold of query run on each group of a
\* partition of the users, with the partial aggregates merged, gives the totals
\* and the histogram of one pass over all the users, in whatever order.
C5_Commutativity ==
    Len(results) = 3 =>
        Merge(Aggregate(results[1]), Aggregate(results[2])) = Aggregate(results[3])

C5_Witness ==
    /\ Len(results) = 3
    /\ results[1].sequences > 0
    /\ results[2].sequences > 1
    /\ results[2].end_count = 1
    /\ results[3].users[1] > results[3].users[2]

HasStart(u) == HasKey(event_series[u], START_EVENT)
HasEnd(u) == HasKey(event_series[u], END_EVENT)

\* C6. start_count: once query has processed its users, start_count is the
\* number of them that have a start_event series, whether or not they have an
\* end_event series or an accepted pair; a user without one is never counted.
C6_StartCount ==
    /\ pc \in {"for", "while"} =>
          start_count = Cardinality({n \in 1..user_idx : HasStart(users[n])})
    /\ \A c \in 1..Len(results) :
          results[c].start_count =
              Cardinality({n \in 1..Len(results[c].users) : HasStart(results[c].users[n])})

C6_Witness ==
    \E c \in 1..Len(results) :
        /\ Len(results[c].users) = 2
        /\ results[c].start_count = 2
        /\ results[c].end_count = 0
        /\ \E n \in 1..2 : ~HasEnd(results[c].users[n])
        /\ \E n \in 1..2 : HasEnd(results[c].users[n])

SeriesLen(u, ev) == IF HasKey(event_series[u], ev) THEN Len(event_series[u][ev]) ELSE 0

\* C7. events_scanned: once query has processed its users, start_es + end_es
\* is the sum over every user of |S| + |E|, an absent series counting 0, the
\* users with only one of the two series included.
C7_EventsScanned ==
    \A c \in 1..Len(results) :
        results[c].events_scanned =
            SumSeq([n \in 1..Len(results[c].users) |->
                      SeriesLen(results[c].users[n], START_EVENT)
                          + SeriesLen(results[c].users[n], END_EVENT)])

\* C7 as amended: start_es + end_es is the sum of |S| + |E| over the users
\* that have both series; a user lacking either series adds nothing.
C7_EventsScannedBoth ==
    /\ pc \in {"for", "while"} =>
          start_es + end_es =
              SumSeq([n \in 1..user_idx |->
                        IF HasStart(users[n]) /\ HasEnd(users[n])
                        THEN SeriesLen(users[n], START_EVENT) + SeriesLen(users[n], END_EVENT)
                        ELSE 0])
    /\ \A c \in 1..Len(results) :
          results[c].events_scanned =
              SumSeq([n \in 1..Len(results[c].users) |->
                        IF HasStart(results[c].users[n]) /\ HasEnd(results[c].users[n])
                        THEN SeriesLen(results[c].users[n], START_EVENT)
                                 + SeriesLen(results[c].users[n], END_EVENT)
                        ELSE 0])

C7_Witness ==
    \E c \in 1..Len(results) :
        /\ Len(results[c].users) = 2
        /\ results[c].events_scanned = 3
        /\ \E n \in 1..2 : HasStart(results[c].users[n]) /\ ~HasEnd(results[c].users[n])

====
